---- MODULE Spec2Model ----
(***************************************************************************)
(* Financial CRAG system: the quality-gated retrieval pipeline             *)
(* (financial_crag.py) and the command shell that drives it                *)
(* (financial_crag_cli.py).                                                *)
(*                                                                         *)
(* Text is modelled as sequences of one-character strings so that          *)
(* slicing, joining, trimming and case conversion are computed, not        *)
(* assumed.                                                                *)
(***************************************************************************)
EXTENDS Integers, Sequences, FiniteSets, TLC

(***************************************************************************)
(* Bounds of the model                                                     *)
(***************************************************************************)
\* setup calls made in one behaviour
MaxSetups == 2
\* query calls made in one behaviour
MaxQueries == 2

(***************************************************************************)
(* Program constants                                                       *)
(***************************************************************************)
\* similarity_search(..., k=5)
RetrieveK == 5
\* tavily search(..., max_results=3)
MaxWebResults == 3
\* doc.page_content[:800] in the combined context
LocalCap == 800
\* state["documents"][:2] in the combined context
LocalDocs == 2
\* d.page_content[:500] in the assessor
AssessCap == 500
\* documents[:3] in the assessor
AssessDocs == 3

\* Python's None where a text is expected: a value that is no text
None == << "None" >>
\* Python's None where a vector store or a compiled graph is expected
NoStore == [ticker |-> << >>, id |-> 0]
NoApp == [compiled |-> FALSE, vectorstore |-> NoStore, tavily_client |-> FALSE]

(***************************************************************************)
(* Text helpers (Python str operations)                                    *)
(***************************************************************************)
Min(a, b) == IF a < b THEN a ELSE b

\* s[:n]
Take(s, n) == SubSeq(s, 1, Min(n, Len(s)))

\* sep.join(parts)
RECURSIVE Join(_, _)
Join(parts, sep) ==
    IF Len(parts) = 0 THEN << >>
    ELSE IF Len(parts) = 1 THEN parts[1]
    ELSE parts[1] \o sep \o Join(Tail(parts), sep)

\* needle in s
Contains(s, needle) ==
    \E i \in 0..(Len(s) - Len(needle)) : SubSeq(s, i + 1, i + Len(needle)) = needle

UpperLetters ==
    << "A", "B", "C", "D", "E", "F", "G", "H", "I", "J", "K", "L", "M",
       "N", "O", "P", "Q", "R", "S", "T", "U", "V", "W", "X", "Y", "Z" >>
LowerLetters ==
    << "a", "b", "c", "d", "e", "f", "g", "h", "i", "j", "k", "l", "m",
       "n", "o", "p", "q", "r", "s", "t", "u", "v", "w", "x", "y", "z" >>

LowerChar(c) ==
    IF \E i \in 1..26 : UpperLetters[i] = c
    THEN LowerLetters[CHOOSE i \in 1..26 : UpperLetters[i] = c]
    ELSE c
UpperChar(c) ==
    IF \E i \in 1..26 : LowerLetters[i] = c
    THEN UpperLetters[CHOOSE i \in 1..26 : LowerLetters[i] = c]
    ELSE c

\* s.lower(), s.upper()
Lower(s) == [i \in 1..Len(s) |-> LowerChar(s[i])]
Upper(s) == [i \in 1..Len(s) |-> UpperChar(s[i])]

Whitespace == {" ", "\t", "\n", "\r", "\f"}

\* s.strip()
Strip(s) ==
    IF \A i \in 1..Len(s) : s[i] \in Whitespace THEN << >>
    ELSE LET first == CHOOSE i \in 1..Len(s) :
                          /\ s[i] \notin Whitespace
                          /\ \A j \in 1..(i - 1) : s[j] \in Whitespace
             last  == CHOOSE i \in 1..Len(s) :
                          /\ s[i] \notin Whitespace
                          /\ \A j \in (i + 1)..Len(s) : s[j] \in Whitespace
         IN SubSeq(s, first, last)

\* bool(s) for a str
Truthy(s) == s # << >>

\* the separator "\n\n"
BlankLine == << "\n", "\n" >>

\* a text of n copies of c ending in the marker e
Text(c, n, e) == [i \in 1..n |-> IF i = n THEN e ELSE c]

\* all sequences over S of length at most n
SeqsUpTo(S, n) == UNION { [1..k -> S] : k \in 0..n }

(***************************************************************************)
(* Literal texts of the program                                            *)
(***************************************************************************)
\* "[Web search disabled]"
WebDisabledText ==
    << "[", "W", "e", "b", " ", "s", "e", "a", "r", "c", "h", " ", "d", "i", "s", "a", "b", "l", "e", "d", "]" >>
\* "[Error: " and "]" around str(e)
ErrorPrefix == << "[", "E", "r", "r", "o", "r", ":", " " >>
ErrorSuffix == << "]" >>
\* "Local:\n", "\n\nWeb:\n"
LocalHeader == << "L", "o", "c", "a", "l", ":", "\n" >>
WebHeader == << "\n", "\n", "W", "e", "b", ":", "\n" >>
\* the words the assessor looks for
CorrectWord == << "c", "o", "r", "r", "e", "c", "t" >>
IncorrectWord == << "i", "n", "c", "o", "r", "r", "e", "c", "t" >>

(***************************************************************************)
(* Inputs: what the external capabilities may hand back                    *)
(***************************************************************************)
\* documents the store may rank; contents straddle the 800-character cap
DocIds == {"stock", "news", "filing"}
Contents ==
    [d \in DocIds |->
        CASE d = "stock"  -> Text("s", 3, "S")
          [] d = "news"   -> Text("n", LocalCap, "N")
          [] d = "filing" -> Text("f", LocalCap + 1, "F")]
\* doc.page_content
PageContent(d) == Contents[d]

\* rankings of the corpus the store may compute for a question
Rankings ==
    { << "filing", "news", "stock", "filing", "news", "stock" >>,
      << "stock", "filing", "filing", "news", "stock", "news" >> }
\* similarity_search results: the first n <= k documents of a ranking
\* (fewer than k when the corpus is small)
SearchResults == { Take(r, n) : r \in Rankings, n \in 0..RetrieveK }

\* texts the assessment model may answer with
Responses ==
    { << "c", "o", "r", "r", "e", "c", "t" >>,
      << " ", "C", "o", "r", "r", "e", "c", "t", "\n" >>,
      << "i", "n", "c", "o", "r", "r", "e", "c", "t" >>,
      << "T", "h", "i", "s", " ", "i", "s", " ", "i", "n", "c", "o", "r", "r", "e", "c", "t" >>,
      << "n", "o", "t", " ", "s", "u", "r", "e" >>,
      << "a", "m", "b", "i", "g", "u", "o", "u", "s" >> }

\* content fields of web results
WebContents == { << >>, << "w" >> }
\* the 'results' list of a search response
WebResponses == SeqsUpTo(WebContents, MaxWebResults)
\* str(e) of an error raised by the search client
ErrorTexts == { << "t", "i", "m", "e", "o", "u", "t" >> }

\* texts the answer model may produce
Answers == { << "o", "k" >> }

\* questions and tickers a caller may pass
Questions == { << >>, << "p", "e", "?" >> }
\* what is typed after "setup" in the shell
RawTickers == { << " " >>, << "a", "a" >>, << " ", "M", "s", " " >> }
\* main(): the ticker set up and a question asked; query()'s ticker is
\* that ticker or the default ""
MainTicker == << "A", "A" >>
MainQuestion == << "p", "e", "?" >>
APITickers == { << >>, MainTicker }

Qualities == {"correct", "ambiguous", "incorrect"}

\* answers of the assessment model, followed one call at a time: a word
\* with something before and something after it
ResponseHeads ==
    { << >>,
      << " " >>,
      << "T", "h", "i", "s", " ", "i", "s", " " >>,
      << "T", "h", "i", "s", " ", "i", "s", " ", "i", "n" >>,
      << "i", "n" >>,
      << "I", "N" >>,
      << "n", "o", "t", " " >>,
      << "\n" >> }
ResponseWords ==
    { << "c", "o", "r", "r", "e", "c", "t" >>,
      << "C", "o", "r", "r", "e", "c", "t" >>,
      << "C", "O", "R", "R", "E", "C", "T" >>,
      << "c", "o", "r", "e", "c", "t" >>,
      << "s", "u", "r", "e" >>,
      << "a", "m", "b", "i", "g", "u", "o", "u", "s" >>,
      << >> }
ResponseTails ==
    { << >>,
      << "." >>,
      << " ", "\n" >>,
      << "l", "y" >>,
      << "i", "o", "n" >> }
AssessorResponses ==
    { h \o w \o e : h \in ResponseHeads, w \in ResponseWords, e \in ResponseTails }

(***************************************************************************)
(* State                                                                   *)
(***************************************************************************)
VARIABLES
    mode,         \* which program runs: "cli" (the shell) or "api" (the library)
    tavilyKey,    \* os.getenv("TAVILY_API_KEY") is set
    shell,        \* CRAGCLI.run: "off", "prompt" or "exited"
    cliSystem,    \* CRAGCLI.system is not None
    cliTicker,    \* CRAGCLI.ticker
    sysCreated,   \* a FinancialCRAG object exists
    tavily,       \* FinancialCRAG.tavily is a client (FALSE: None)
    vectorstore,  \* FinancialCRAG.vectorstore
    app,          \* FinancialCRAG.app: the compiled graph and what it closes over
    pc,           \* position of the current query run
    state,        \* the CRAGState of the current query run
    context,      \* the context handed to the generation chain in this run
    calls,        \* how often each capability and node ran in this run
    result,       \* what the last query call returned or raised
    lastSetup,    \* what the last setup call did
    prev,         \* how the query call before the current one ended
    okSetups,     \* setup calls that returned normally so far
    webReply,     \* what the search client handed back in this run
    nSetups,      \* setup calls so far
    nQueries,     \* query calls so far
    okRaw,        \* the ticker text the last successful CRAGCLI.setup was given
    assessor,     \* one call of CRAGAssessor.assess followed on its own
    loop,         \* CRAGCLI.run: the line last read and what it was taken for
    runs          \* the query calls of concurrent threads, one record per thread

\* the program and its single query run
programVars == << mode, tavilyKey, shell, cliSystem, cliTicker, sysCreated, tavily,
                  vectorstore, app, pc, state, context, calls, result, lastSetup,
                  prev, okSetups, webReply, nSetups, nQueries, okRaw >>

\* what the steps of the program above leave alone
otherVars == << assessor, loop, runs >>

vars == << programVars, otherVars >>

sessionVars == << cliSystem, cliTicker, sysCreated, tavily, vectorstore, app >>
runVars == << pc, state, context, calls, result, webReply >>

\* the state handed to app.invoke by query()
InitialState(question, ticker) ==
    [ question    |-> question,
      ticker      |-> ticker,
      documents   |-> << >>,
      web_results |-> << >>,
      generation  |-> << >>,
      quality     |-> "unknown" ]

\* raised: the capability whose exception ended the run ("" while none did)
NoCalls == [ search |-> 0, assessor |-> 0, web_node |-> 0, tavily |-> 0,
             generator |-> 0, route |-> 0, raised |-> "" ]

\* no reply of the search client yet
NoReply == [kind |-> "none", results |-> << >>, text |-> << >>]

NoState == InitialState(<< >>, << >>)

\* no line read yet by the prompt loop
NoLoop == [ user_input |-> None, output |-> "none" ]

\* no call of the assessor is being followed
NoAssessor ==
    [ pc |-> "idle", documents |-> << >>, docs_text |-> None,
      response |-> None, result |-> "" ]

(***************************************************************************)
(* CRAGAssessor                                                            *)
(***************************************************************************)
\* mutants of AssessorDocsText: four documents
AssessorDocsText_FourDocs(documents) ==
    Join([i \in 1..Min(AssessDocs + 1, Len(documents)) |->
              Take(PageContent(documents[i]), AssessCap)], BlankLine)

\* the documents text sent to the assessment chain
AssessorDocsText(documents) ==
    Join([i \in 1..Min(AssessDocs, Len(documents)) |->
              Take(PageContent(documents[i]), AssessCap)], BlankLine)

\* mutants of AssessorParse: "incorrect" is looked for first; the answer
\* "incorrect" alone is taken at its word
AssessorParse_IncorrectFirst(response) ==
    LET result_lower == Strip(Lower(response))
    IN IF Contains(result_lower, IncorrectWord) THEN "incorrect"
       ELSE IF Contains(result_lower, CorrectWord) THEN "correct"
       ELSE "ambiguous"
AssessorParse_ExactWord(response) ==
    LET result_lower == Strip(Lower(response))
    IN IF result_lower = IncorrectWord THEN "incorrect"
       ELSE IF Contains(result_lower, CorrectWord) THEN "correct"
       ELSE "ambiguous"

\* parsing of the chain's answer
AssessorParse(response) ==
    LET result_lower == Strip(Lower(response))
    IN IF Contains(result_lower, CorrectWord) THEN "correct"
       ELSE IF Contains(result_lower, IncorrectWord) THEN "incorrect"
       ELSE "ambiguous"

(***************************************************************************)
(* CRAGWorkflow nodes, as functions of the run state and of what the       *)
(* capability they call handed back                                        *)
(***************************************************************************)
retrieve(s, docs) == [s EXCEPT !.documents = docs]

\* mutant of assess: the verdict is not stored
assess_NotStored(s, response) == s

assess(s, response) == [s EXCEPT !.quality = AssessorParse(response)]

\* the query sent to the search client
WebQuery(s) == s.ticker \o << " ", "s", "t", "o", "c", "k", " " >> \o s.question

\* outcome of the search client: [kind |-> "ok", results |-> ...] or
\* [kind |-> "raise", text |-> str(e)]
WebOutcomes ==
    [kind : {"ok"}, results : WebResponses, text : {<< >>}]
        \cup [kind : {"raise"}, results : {<< >>}, text : ErrorTexts]

\* mutant of web_search: a missing client leaves web_results as it was
web_search_SilentDisabled(s, tavily_client, outcome) ==
    IF ~tavily_client
    THEN s
    ELSE IF outcome.kind = "ok"
    THEN [s EXCEPT !.web_results = Join(outcome.results, BlankLine)]
    ELSE [s EXCEPT !.web_results = ErrorPrefix \o outcome.text \o ErrorSuffix]

web_search(s, tavily_client, outcome) ==
    IF ~tavily_client
    THEN [s EXCEPT !.web_results = WebDisabledText]
    ELSE IF outcome.kind = "ok"
    THEN [s EXCEPT !.web_results = Join(outcome.results, BlankLine)]
    ELSE [s EXCEPT !.web_results = ErrorPrefix \o outcome.text \o ErrorSuffix]

\* mutants of GenerateContext: the local part takes three documents; the
\* "correct" branch cuts each document like the other branch does
GenerateContext_ThreeLocal(s) ==
    IF s.quality = "correct"
    THEN Join([i \in 1..Len(s.documents) |-> PageContent(s.documents[i])], BlankLine)
    ELSE LET local == Join([i \in 1..Min(AssessDocs, Len(s.documents)) |->
                               Take(PageContent(s.documents[i]), LocalCap)], BlankLine)
         IN LocalHeader \o local \o WebHeader \o s.web_results
GenerateContext_CutCorrect(s) ==
    IF s.quality = "correct"
    THEN Join([i \in 1..Len(s.documents) |->
                   Take(PageContent(s.documents[i]), LocalCap)], BlankLine)
    ELSE LET local == Join([i \in 1..Min(LocalDocs, Len(s.documents)) |->
                               Take(PageContent(s.documents[i]), LocalCap)], BlankLine)
         IN LocalHeader \o local \o WebHeader \o s.web_results

\* mutant of GenerateContext: the question is appended to the context
GenerateContext_WithQuestion(s) ==
    IF s.quality = "correct"
    THEN Join([i \in 1..Len(s.documents) |-> PageContent(s.documents[i])], BlankLine)
             \o s.question
    ELSE LET local == Join([i \in 1..Min(LocalDocs, Len(s.documents)) |->
                               Take(PageContent(s.documents[i]), LocalCap)], BlankLine)
         IN LocalHeader \o local \o WebHeader \o s.web_results \o s.question

\* the context generate() builds
GenerateContext(s) ==
    IF s.quality = "correct"
    THEN Join([i \in 1..Len(s.documents) |-> PageContent(s.documents[i])], BlankLine)
    ELSE LET local == Join([i \in 1..Min(LocalDocs, Len(s.documents)) |->
                               Take(PageContent(s.documents[i]), LocalCap)], BlankLine)
         IN LocalHeader \o local \o WebHeader \o s.web_results

generate(s, answer) == [s EXCEPT !.generation = answer]

\* mutants of route: the branches swapped; the web branch never taken
route_Swapped(s) == IF s.quality = "correct" THEN "web_search" ELSE "generate"
route_NeverWeb(s) == "generate"

\* mutant of route: an edge back to the entry node
route_BackToRetrieve(s) == IF s.quality = "correct" THEN "generate" ELSE "retrieve"

route(s) == IF s.quality = "correct" THEN "generate" ELSE "web_search"

\* the dict query() returns
QueryResult(question, s) ==
    [ kind     |-> "ok",
      question |-> question,
      answer   |-> s.generation,
      quality  |-> s.quality,
      used_web |-> Truthy(s.web_results) ]

QueryError(what) ==
    [ kind |-> "error", question |-> << >>, answer |-> << >>, quality |-> "",
      used_web |-> FALSE, error |-> what ]

NoResult ==
    [ kind |-> "none", question |-> << >>, answer |-> << >>, quality |-> "",
      used_web |-> FALSE, error |-> "" ]

\* the threads that call query() at the same time
RunIds == {"t1", "t2"}

\* what a thread's run was started with and what the capabilities handed
\* to it
NoGot == [ question |-> << >>, ticker |-> << >>, documents |-> << >>,
           response |-> None, web |-> NoReply, answer |-> None ]

\* a thread that has not called query()
NoRun == [ pc |-> "idle", state |-> NoState, context |-> None,
           result |-> NoResult, got |-> NoGot ]
NoRuns == [r \in RunIds |-> NoRun]

(***************************************************************************)
(* Initial state: nothing constructed yet                                  *)
(***************************************************************************)
InitProgram ==
    /\ mode \in {"cli", "api"}
    /\ tavilyKey \in BOOLEAN
    /\ shell = "off"
    /\ cliSystem = FALSE
    /\ cliTicker = None
    /\ sysCreated = FALSE
    /\ tavily = FALSE
    /\ vectorstore = NoStore
    /\ app = NoApp
    /\ pc = "idle"
    /\ state = NoState
    /\ context = None
    /\ calls = NoCalls
    /\ result = NoResult
    /\ lastSetup = "none"
    /\ prev = "other"
    /\ okSetups = 0
    /\ webReply = NoReply
    /\ nSetups = 0
    /\ nQueries = 0
    /\ okRaw = None

Init ==
    /\ InitProgram
    /\ assessor = NoAssessor
    /\ loop = NoLoop
    /\ runs = NoRuns

\* no query run is in progress
RunIdle == pc \in {"idle", "done", "failed"}

(***************************************************************************)
(* FinancialCRAG.__init__ and FinancialCRAG.setup                          *)
(***************************************************************************)
\* steps at which setup() can raise, and success
SetupOutcomes == {"fail_stock", "fail_index", "fail_graph", "ok"}

\* the Chroma store setup() builds for a ticker
NewStore(ticker) == [ticker |-> ticker, id |-> nSetups + 1]

\* self.vectorstore after setup(): assigned once the index is built
SetupVectorstore(old, new, outcome) ==
    IF outcome \in {"fail_graph", "ok"} THEN new ELSE old

\* self.app after setup(): assigned once the graph is compiled
SetupApp(old, new, outcome) ==
    IF outcome = "ok"
    THEN [compiled |-> TRUE, vectorstore |-> new,
          tavily_client |-> IF sysCreated THEN tavily ELSE tavilyKey]
    ELSE old

SystemInit ==
    /\ sysCreated' = TRUE
    /\ tavily' = tavilyKey

SystemSetup(ticker, outcome) ==
    /\ vectorstore' = SetupVectorstore(vectorstore, NewStore(ticker), outcome)
    /\ app' = SetupApp(app, NewStore(ticker), outcome)

\* a finished run's record is dropped when the next call is made
ForgetRun ==
    /\ pc' = "idle"
    /\ state' = NoState
    /\ context' = None
    /\ calls' = NoCalls
    /\ result' = NoResult
    /\ webReply' = NoReply

\* the library used directly: system = FinancialCRAG()
APINew ==
    /\ mode = "api"
    /\ ~sysCreated
    /\ SystemInit
    /\ UNCHANGED << mode, tavilyKey, okRaw, shell, cliSystem, cliTicker, vectorstore, app,
                    lastSetup, prev, okSetups, nSetups, nQueries >>
    /\ UNCHANGED runVars
    /\ UNCHANGED otherVars

\* the library used directly: system.setup(ticker)
APISetup(ticker, outcome) ==
    /\ mode = "api"
    /\ sysCreated
    /\ RunIdle
    /\ nSetups < MaxSetups
    /\ SystemSetup(ticker, outcome)
    /\ lastSetup' = outcome
    /\ okSetups' = IF outcome = "ok" THEN okSetups + 1 ELSE okSetups
    /\ nSetups' = nSetups + 1
    /\ ForgetRun
    /\ UNCHANGED << mode, tavilyKey, okRaw, shell, cliSystem, cliTicker, sysCreated, tavily,
                    prev, nQueries >>
    /\ UNCHANGED otherVars

(***************************************************************************)
(* CRAGCLI                                                                 *)
(***************************************************************************)
\* run(): the key check that precedes the prompt loop
CLIRun ==
    /\ mode = "cli"
    /\ shell = "off"
    /\ shell' = IF tavilyKey THEN "prompt" ELSE "exited"
    /\ UNCHANGED << mode, tavilyKey, okRaw, nSetups, nQueries, lastSetup, prev, okSetups >>
    /\ UNCHANGED sessionVars
    /\ UNCHANGED runVars
    /\ UNCHANGED otherVars

\* mutant of CLISetupTicker: the ticker is taken over before system.setup
\* has returned
CLISetupTicker_Early(old, ticker, outcome) == ticker

\* CRAGCLI.ticker after setup(): taken over only when system.setup returned
CLISetupTicker(old, ticker, outcome) ==
    IF outcome = "ok" THEN ticker ELSE old

\* CRAGCLI.setup(raw)
CLISetupCall(raw, outcome) ==
    /\ mode = "cli"
    /\ shell = "prompt"
    /\ RunIdle
    /\ nSetups < MaxSetups
    /\ nSetups' = nSetups + 1
    /\ ForgetRun
    /\ LET ticker == Strip(Upper(raw))
       IN IF ticker = << >>
          THEN /\ lastSetup' = "no_ticker"
               /\ UNCHANGED okSetups
               /\ UNCHANGED sessionVars
          ELSE /\ cliSystem' = TRUE
               /\ IF ~cliSystem THEN SystemInit
                                ELSE UNCHANGED << sysCreated, tavily >>
               /\ SystemSetup(ticker, outcome)
               /\ cliTicker' = CLISetupTicker(cliTicker, ticker, outcome)
               /\ lastSetup' = outcome
               /\ okSetups' = IF outcome = "ok" THEN okSetups + 1 ELSE okSetups
    /\ okRaw' = IF Strip(Upper(raw)) # << >> /\ outcome = "ok" THEN raw ELSE okRaw
    /\ UNCHANGED << mode, tavilyKey, shell, prev, nQueries >>

\* CRAGCLI.setup(raw) called on its own
CLISetup(raw, outcome) ==
    /\ CLISetupCall(raw, outcome)
    /\ UNCHANGED otherVars

(***************************************************************************)
(* FinancialCRAG.query and the compiled graph                              *)
(***************************************************************************)
\* mutant of QueryAllowed: the guard is missing
QueryAllowed_Always == TRUE

\* how a query call ended: "raised" when a capability's exception ended
\* it, "other" otherwise
Ending(r) ==
    IF r.kind = "error" /\ r.error \in {"retrieve", "assess", "web_search", "generate"}
    THEN "raised"
    ELSE "other"

\* query() refuses to run before a graph is compiled
QueryAllowed == app.compiled

\* system.query(question, ticker): the guard, then app.invoke starts
SystemQuery(question, ticker) ==
    /\ prev' = Ending(result)
    /\ lastSetup' = "none"
    /\ context' = None
    /\ calls' = NoCalls
    /\ webReply' = NoReply
    /\ IF QueryAllowed
       THEN /\ pc' = "retrieve"
            /\ state' = InitialState(question, ticker)
            /\ result' = NoResult
       ELSE /\ pc' = "failed"
            /\ state' = NoState
            /\ result' = QueryError("Call setup() first")

\* the library used directly: system.query(question, ticker)
APIQuery(question, ticker) ==
    /\ mode = "api"
    /\ sysCreated
    /\ RunIdle
    /\ nQueries < MaxQueries
    /\ nQueries' = nQueries + 1
    /\ SystemQuery(question, ticker)
    /\ UNCHANGED << mode, tavilyKey, okRaw, shell, okSetups, nSetups >>
    /\ UNCHANGED sessionVars
    /\ UNCHANGED otherVars

\* CRAGCLI.query reaches system.query only with a system, a ticker and a question
CLIQueryReady(question) == cliSystem /\ cliTicker # None /\ question # << >>

\* CRAGCLI.query(question)
CLIQueryCall(question) ==
    /\ mode = "cli"
    /\ shell = "prompt"
    /\ RunIdle
    /\ nQueries < MaxQueries
    /\ nQueries' = nQueries + 1
    /\ IF CLIQueryReady(question)
       THEN SystemQuery(question, cliTicker)
       ELSE /\ pc' = "idle"
            /\ state' = NoState
            /\ context' = None
            /\ calls' = NoCalls
            /\ webReply' = NoReply
            /\ result' = [NoResult EXCEPT !.kind = "refused"]
            /\ prev' = Ending(result)
            /\ lastSetup' = "none"
    /\ UNCHANGED << mode, tavilyKey, okRaw, shell, okSetups, nSetups >>
    /\ UNCHANGED sessionVars

\* CRAGCLI.query(question) called on its own
CLIQuery(question) ==
    /\ CLIQueryCall(question)
    /\ UNCHANGED otherVars

\* mutant of Raise: the exception is swallowed and a result is returned
Raise_Swallowed(what) ==
    /\ pc' = "done"
    /\ result' = QueryResult(state.question, state)

\* a capability raised: the exception leaves app.invoke and query()
Raise(what) ==
    /\ pc' = "failed"
    /\ result' = QueryError(what)

\* what a capability call ends in: a value, or an exception
Outcomes(values) ==
    [kind : {"ok"}, value : values] \cup [kind : {"raise"}, value : {<< >>}]

\* node "retrieve"; the search returns ranked documents or raises
Retrieve(found) ==
    /\ pc = "retrieve"
    /\ calls' = [calls EXCEPT !.search = @ + 1,
                              !.raised = IF found.kind = "raise" THEN "retrieve" ELSE @]
    /\ IF found.kind = "raise"
       THEN Raise("retrieve") /\ UNCHANGED state
       ELSE /\ state' = retrieve(state, found.value)
            /\ pc' = "assess"
            /\ UNCHANGED result
    /\ UNCHANGED << context, webReply, mode, tavilyKey, okRaw, shell, lastSetup, prev, okSetups,
                    nSetups, nQueries >>
    /\ UNCHANGED sessionVars
    /\ UNCHANGED otherVars

\* node "assess"; the assessment chain answers or raises
Assess(response) ==
    /\ pc = "assess"
    /\ calls' = [calls EXCEPT !.assessor = @ + 1,
                              !.raised = IF response.kind = "raise" THEN "assess" ELSE @]
    /\ IF response.kind = "raise"
       THEN Raise("assess") /\ UNCHANGED state
       ELSE /\ state' = assess(state, response.value)
            /\ pc' = "route"
            /\ UNCHANGED result
    /\ UNCHANGED << context, webReply, mode, tavilyKey, okRaw, shell, lastSetup, prev, okSetups,
                    nSetups, nQueries >>
    /\ UNCHANGED sessionVars
    /\ UNCHANGED otherVars

\* the conditional edge after "assess"
Route ==
    /\ pc = "route"
    /\ calls' = [calls EXCEPT !.route = @ + 1]
    /\ pc' = route(state)
    /\ UNCHANGED << state, context, result, webReply, mode, tavilyKey, okRaw, shell,
                    lastSetup, prev, okSetups, nSetups, nQueries >>
    /\ UNCHANGED sessionVars
    /\ UNCHANGED otherVars

\* the try/except around the search call: "except Exception" takes every
\* error the client raises
\* mutant of WebSearchCaught: no except clause around the search call
WebSearchCaught_Nothing(outcome) == FALSE

WebSearchCaught(outcome) == outcome.kind = "raise"

\* node "web_search", then the edge to "generate"
WebSearch(outcome) ==
    /\ pc = "web_search"
    /\ LET called == app.tavily_client
           escapes == called /\ outcome.kind = "raise" /\ ~WebSearchCaught(outcome)
       IN /\ calls' = [calls EXCEPT !.web_node = @ + 1,
                                    !.tavily = IF called THEN @ + 1 ELSE @,
                                    !.raised = IF escapes THEN "web_search" ELSE @]
          /\ webReply' = IF called THEN outcome ELSE NoReply
          /\ IF escapes
             THEN Raise("web_search") /\ UNCHANGED state
             ELSE /\ state' = web_search(state, called, outcome)
                  /\ pc' = "generate"
                  /\ UNCHANGED result
    /\ UNCHANGED << context, mode, tavilyKey, okRaw, shell, lastSetup, prev, okSetups,
                    nSetups, nQueries >>
    /\ UNCHANGED sessionVars
    /\ UNCHANGED otherVars

\* node "generate", then END and the return of query();
\* the generation chain answers or raises
Generate(answer) ==
    /\ pc = "generate"
    /\ calls' = [calls EXCEPT !.generator = @ + 1,
                              !.raised = IF answer.kind = "raise" THEN "generate" ELSE @]
    /\ context' = GenerateContext(state)
    /\ IF answer.kind = "raise"
       THEN Raise("generate") /\ UNCHANGED state
       ELSE /\ state' = generate(state, answer.value)
            /\ pc' = "done"
            /\ result' = QueryResult(state.question, state')
    /\ UNCHANGED << webReply, mode, tavilyKey, okRaw, shell, lastSetup, prev, okSetups,
                    nSetups, nQueries >>
    /\ UNCHANGED sessionVars
    /\ UNCHANGED otherVars

(***************************************************************************)
(* Specification                                                           *)
(***************************************************************************)
Next ==
    \/ APINew
    \/ \E o \in SetupOutcomes : APISetup(MainTicker, o)
    \/ \E t \in APITickers : APIQuery(MainQuestion, t)
    \/ CLIRun
    \/ \E t \in RawTickers, o \in SetupOutcomes : CLISetup(t, o)
    \/ \E q \in Questions : CLIQuery(q)
    \/ \E d \in Outcomes(SearchResults) : Retrieve(d)
    \/ \E r \in Outcomes(Responses) : Assess(r)
    \/ Route
    \/ \E o \in WebOutcomes : WebSearch(o)
    \/ \E a \in Outcomes(Answers) : Generate(a)

Spec == Init /\ [][Next]_vars

\* a few of the things the capabilities may hand back, for the
\* specifications that do not turn on them
FewSearchResults == { << >>, << "stock" >> }
FewResponses == { CorrectWord, << "n", "o", "t", " ", "s", "u", "r", "e" >> }
FewWebOutcomes == { o \in WebOutcomes : Len(o.results) <= 1 }

\* app.invoke runs the nodes of one query on the caller's thread, one after
\* the other: a step that can be taken is taken once the capability it
\* waits for has returned or raised
RunFairness ==
    /\ WF_vars(\E d \in Outcomes(FewSearchResults) : Retrieve(d))
    /\ WF_vars(\E r \in Outcomes(FewResponses) : Assess(r))
    /\ WF_vars(Route)
    /\ WF_vars(\E o \in FewWebOutcomes : WebSearch(o))
    /\ WF_vars(\E a \in Outcomes(Answers) : Generate(a))

NextLive ==
    \/ APINew
    \/ \E o \in SetupOutcomes : APISetup(MainTicker, o)
    \/ \E t \in APITickers : APIQuery(MainQuestion, t)
    \/ CLIRun
    \/ \E t \in RawTickers, o \in SetupOutcomes : CLISetup(t, o)
    \/ \E q \in Questions : CLIQuery(q)
    \/ \E d \in Outcomes(FewSearchResults) : Retrieve(d)
    \/ \E r \in Outcomes(FewResponses) : Assess(r)
    \/ Route
    \/ \E o \in FewWebOutcomes : WebSearch(o)
    \/ \E a \in Outcomes(Answers) : Generate(a)

SpecLive == Init /\ [][NextLive]_vars /\ RunFairness

(***************************************************************************)
(* CRAGCLI.run: the prompt loop, one line at a time                        *)
(***************************************************************************)
\* lines typed at the prompt
Lines ==
    { << " ", " " >>,
      << "h", "e", "l", "p" >>,
      << "e", "x", "i", "t" >>,
      << "Q", "U", "I", "T" >>,
      << "s", "e", "t", "u", "p", " ", "a", "a" >>,
      << "S", "e", "t", "u", "p", " ", " ", "M", "s" >>,
      << "s", "e", "t", "u", "p" >>,
      << "q", "u", "e", "r", "y", " ", "p", "e", "?" >>,
      << "q", "u", "e", "r", "y" >>,
      << "p", "e", "?" >>,
      << " ", "w", "h", "y", " ", "u", "p", " " >>,
      << "h", "e", "l", "p", "m", "e" >> }

\* the command words, lower case
ExitWord == << "e", "x", "i", "t" >>
QuitWord == << "q", "u", "i", "t" >>
HelpWord == << "h", "e", "l", "p" >>
SetupWord == << "s", "e", "t", "u", "p" >>
QueryWord == << "q", "u", "e", "r", "y" >>

\* s.lstrip()
LStrip(s) ==
    IF \A i \in 1..Len(s) : s[i] \in Whitespace THEN << >>
    ELSE LET first == CHOOSE i \in 1..Len(s) :
                          /\ s[i] \notin Whitespace
                          /\ \A j \in 1..(i - 1) : s[j] \in Whitespace
         IN SubSeq(s, first, Len(s))

\* s.split(maxsplit=1) for a text without whitespace around it
SplitOnce(s) ==
    LET gaps == {i \in 1..Len(s) : s[i] \in Whitespace}
    IN IF s = << >> THEN << >>
       ELSE IF gaps = {} THEN << s >>
       ELSE LET gap == CHOOSE i \in gaps : \A j \in gaps : i <= j
            IN << SubSeq(s, 1, gap - 1), LStrip(SubSeq(s, gap, Len(s))) >>

\* the line stripped, its first word in lower case, and what follows it
ParseLine(line) ==
    LET user_input == Strip(line)
        parts == SplitOnce(user_input)
    IN [ user_input |-> user_input,
         cmd        |-> IF parts = << >> THEN << >> ELSE Lower(parts[1]),
         args       |-> IF Len(parts) > 1 THEN parts[2] ELSE << >> ]
ParsedLines == [line \in Lines |-> ParseLine(line)]

\* mutant of FreeTextIsQuery: free text is always sent on as a query
FreeTextIsQuery_Always == TRUE

\* a line that names no command is a query once a ticker is loaded
FreeTextIsQuery == cliTicker # None

\* one turn of the loop: Prompt.ask returns a line, the line is dispatched;
\* Confirm.ask answers either way, system.setup ends in any of its outcomes
CLILine(line) ==
    /\ mode = "cli"
    /\ shell = "prompt"
    /\ RunIdle
    /\ UNCHANGED << assessor, runs >>
    /\ LET user_input == ParsedLines[line].user_input
           cmd == ParsedLines[line].cmd
           args == ParsedLines[line].args
           Said(what) == loop' = [user_input |-> user_input, output |-> what]
       IN IF user_input = << >>
          THEN Said("none") /\ UNCHANGED programVars
          ELSE CASE cmd \in {ExitWord, QuitWord} ->
                        \E confirm \in BOOLEAN :
                            /\ Said(IF confirm THEN "goodbye" ELSE "none")
                            /\ shell' = IF confirm THEN "exited" ELSE shell
                            /\ UNCHANGED << mode, tavilyKey, okRaw, lastSetup, prev,
                                            okSetups, nSetups, nQueries >>
                            /\ UNCHANGED sessionVars
                            /\ UNCHANGED runVars
                 [] cmd = HelpWord -> Said("help") /\ UNCHANGED programVars
                 [] cmd = SetupWord ->
                        /\ Said("setup")
                        /\ \E outcome \in SetupOutcomes : CLISetupCall(args, outcome)
                 [] cmd = QueryWord -> Said("query") /\ CLIQueryCall(args)
                 [] OTHER ->
                        IF FreeTextIsQuery
                        THEN Said("query") /\ CLIQueryCall(user_input)
                        ELSE Said("unknown") /\ UNCHANGED programVars

InitShell ==
    /\ Init
    /\ mode = "cli"

NextShell ==
    \/ CLIRun
    \/ \E l \in Lines : CLILine(l)
    \/ \E d \in Outcomes(FewSearchResults) : Retrieve(d)
    \/ \E r \in Outcomes(FewResponses) : Assess(r)
    \/ Route
    \/ \E o \in FewWebOutcomes : WebSearch(o)
    \/ \E a \in Outcomes(Answers) : Generate(a)

SpecShell == InitShell /\ [][NextShell]_vars

(***************************************************************************)
(* Concurrent calls of FinancialCRAG.query on one loaded system: each      *)
(* call builds its own state dict and app.invoke threads it through the    *)
(* nodes; the nodes are methods of one CRAGWorkflow object                 *)
(***************************************************************************)
\* the question each thread asks
ThreadQuestion == [r \in RunIds |-> IF r = "t1" THEN MainQuestion ELSE << "u", "p", "?" >>]

\* what the capabilities hand back to the threads
ThreadSearchResults == { << >>, << "stock", "news" >> }
ThreadResponses == { CorrectWord, << "n", "o", "t", " ", "s", "u", "r", "e" >> }
ThreadWebOutcomes == { o \in WebOutcomes : Len(o.results) <= 1 }
ThreadAnswers == { << "o", "k" >>, << "n", "o" >> }

\* no thread has called query() yet
NoThreadStarted == \A r \in RunIds : runs[r].pc = "idle"

\* mutant of WorkingState: one state dict kept on the workflow object
WorkingState_OnWorkflow(rs, r) == rs["t1"].state

\* the state dict a node of thread r's call is handed
WorkingState(rs, r) == rs[r].state

\* a thread calls system.query(question, ticker)
ThreadQuery(r, question, ticker) ==
    /\ mode = "api"
    /\ sysCreated
    /\ runs[r].pc = "idle"
    /\ runs' = [runs EXCEPT ![r] =
                   IF QueryAllowed
                   THEN [NoRun EXCEPT !.pc = "retrieve",
                                      !.state = InitialState(question, ticker),
                                      !.got = [NoGot EXCEPT !.question = question,
                                                            !.ticker = ticker]]
                   ELSE [NoRun EXCEPT !.pc = "failed",
                                      !.result = QueryError("Call setup() first")]]
    /\ UNCHANGED << programVars, assessor, loop >>

\* node "retrieve" of thread r's call
ThreadRetrieve(r, found) ==
    /\ runs[r].pc = "retrieve"
    /\ runs' = [runs EXCEPT ![r] =
                   IF found.kind = "raise"
                   THEN [@ EXCEPT !.pc = "failed", !.result = QueryError("retrieve")]
                   ELSE [@ EXCEPT !.pc = "assess",
                                  !.state = retrieve(WorkingState(runs, r), found.value),
                                  !.got = [@ EXCEPT !.documents = found.value]]]
    /\ UNCHANGED << programVars, assessor, loop >>

\* node "assess" of thread r's call
ThreadAssess(r, response) ==
    /\ runs[r].pc = "assess"
    /\ runs' = [runs EXCEPT ![r] =
                   IF response.kind = "raise"
                   THEN [@ EXCEPT !.pc = "failed", !.result = QueryError("assess")]
                   ELSE [@ EXCEPT !.pc = "route",
                                  !.state = assess(WorkingState(runs, r), response.value),
                                  !.got = [@ EXCEPT !.response = response.value]]]
    /\ UNCHANGED << programVars, assessor, loop >>

\* the conditional edge of thread r's call
ThreadRoute(r) ==
    /\ runs[r].pc = "route"
    /\ runs' = [runs EXCEPT ![r] = [@ EXCEPT !.pc = route(WorkingState(runs, r))]]
    /\ UNCHANGED << programVars, assessor, loop >>

\* node "web_search" of thread r's call
ThreadWebSearch(r, outcome) ==
    /\ runs[r].pc = "web_search"
    /\ LET called == app.tavily_client
           escapes == called /\ outcome.kind = "raise" /\ ~WebSearchCaught(outcome)
       IN runs' = [runs EXCEPT ![r] =
                      IF escapes
                      THEN [@ EXCEPT !.pc = "failed", !.result = QueryError("web_search")]
                      ELSE [@ EXCEPT !.pc = "generate",
                                     !.state = web_search(WorkingState(runs, r), called,
                                                          outcome),
                                     !.got = [@ EXCEPT !.web = IF called THEN outcome
                                                               ELSE NoReply]]]
    /\ UNCHANGED << programVars, assessor, loop >>

\* node "generate" of thread r's call, then the return of query()
ThreadGenerate(r, answer) ==
    /\ runs[r].pc = "generate"
    /\ LET s == WorkingState(runs, r)
       IN runs' = [runs EXCEPT ![r] =
                      IF answer.kind = "raise"
                      THEN [@ EXCEPT !.pc = "failed", !.context = GenerateContext(s),
                                     !.result = QueryError("generate")]
                      ELSE [@ EXCEPT !.pc = "done",
                                     !.context = GenerateContext(s),
                                     !.state = generate(s, answer.value),
                                     !.result = QueryResult(s.question,
                                                            generate(s, answer.value)),
                                     !.got = [@ EXCEPT !.answer = answer.value]]]
    /\ UNCHANGED << programVars, assessor, loop >>

InitThreads ==
    /\ Init
    /\ mode = "api"

\* setup is not run while calls of query() are under way
NextThreads ==
    \/ APINew
    \/ NoThreadStarted /\ \E o \in SetupOutcomes : APISetup(MainTicker, o)
    \/ \E r \in RunIds : ThreadQuery(r, ThreadQuestion[r], MainTicker)
    \/ \E r \in RunIds, d \in Outcomes(ThreadSearchResults) : ThreadRetrieve(r, d)
    \/ \E r \in RunIds, a \in Outcomes(ThreadResponses) : ThreadAssess(r, a)
    \/ \E r \in RunIds : ThreadRoute(r)
    \/ \E r \in RunIds, o \in ThreadWebOutcomes : ThreadWebSearch(r, o)
    \/ \E r \in RunIds, a \in Outcomes(ThreadAnswers) : ThreadGenerate(r, a)

SpecThreads == InitThreads /\ [][NextThreads]_vars

(***************************************************************************)
(* CRAGAssessor.assess followed on its own: the documents text is built    *)
(* and sent to the chain, then the chain's answer is parsed                *)
(***************************************************************************)
InitAssessor ==
    /\ InitProgram
    /\ mode = "api"
    /\ tavilyKey
    /\ assessor \in [ pc : {"called"}, documents : SearchResults,
                      docs_text : {None}, response : {None}, result : {""} ]
    /\ loop = NoLoop
    /\ runs = NoRuns

\* docs_text is built and chain.invoke is entered
AssessorInvoke ==
    /\ assessor.pc = "called"
    /\ assessor' = [assessor EXCEPT !.pc = "invoked",
                                    !.docs_text = AssessorDocsText(assessor.documents)]
    /\ UNCHANGED << programVars, loop, runs >>

\* chain.invoke answers, and the answer is parsed, or it raises
AssessorReturn(response) ==
    /\ assessor.pc = "invoked"
    /\ assessor' = IF response.kind = "raise"
                   THEN [assessor EXCEPT !.pc = "raised"]
                   ELSE [assessor EXCEPT !.pc = "returned",
                                         !.response = response.value,
                                         !.result = AssessorParse(response.value)]
    /\ UNCHANGED << programVars, loop, runs >>

NextAssessor ==
    \/ AssessorInvoke
    \/ \E r \in Outcomes(AssessorResponses) : AssessorReturn(r)

SpecAssessor == InitAssessor /\ [][NextAssessor]_vars

(***************************************************************************)
(* Properties                                                              *)
(***************************************************************************)
\* the run has handed a context to the generation chain
Generated == calls.generator > 0
\* the run went through the web-search branch
WebBranch == state.quality \in {"ambiguous", "incorrect"}

\* C1: when Assess stored "correct", the web_search node never runs and the
\* search client is never called in that run; web_results is still empty
\* at the end and the returned used_web is false.
C1_CorrectSkipsWeb ==
    state.quality = "correct" =>
        /\ pc # "web_search"
        /\ calls.web_node = 0
        /\ calls.tavily = 0
        /\ state.web_results = << >>
        /\ (pc = "done" => result.kind = "ok" /\ result.used_web = FALSE)

C1_Witness ==
    /\ pc = "done"
    /\ state.quality = "correct"
    /\ Len(state.documents) > 0
    /\ app.tavily_client

\* C2 as stated: when Assess stored "ambiguous" or "incorrect", the search
\* client is invoked exactly once before Generate starts.
C2_Original ==
    (WebBranch /\ (pc = "generate" \/ Generated)) => calls.tavily = 1

\* C2 as amended: when Assess stored "ambiguous" or "incorrect", the
\* web_search node runs exactly once, after Assess has completed and before
\* Generate starts, and it calls the search client exactly once when a
\* client is configured and not at all when none is.
C2_WebNodeOnceBeforeGenerate ==
    /\ calls.web_node <= 1
    /\ calls.tavily <= calls.web_node
    /\ (WebBranch /\ (pc = "generate" \/ Generated)) =>
           /\ calls.web_node = 1
           /\ calls.tavily = IF app.tavily_client THEN 1 ELSE 0
    /\ calls.web_node = 1 => calls.assessor = 1 /\ WebBranch
    /\ pc = "web_search" =>
           /\ calls.assessor = 1
           /\ calls.web_node = 0
           /\ calls.generator = 0
    /\ Generated => pc \in {"done", "failed"}

C2_Witness ==
    /\ pc = "done"
    /\ state.quality = "ambiguous"
    /\ calls.tavily = 1
    /\ webReply.kind = "ok"
    /\ Len(webReply.results) = MaxWebResults

\* C3 as stated: at the end of a completed run web_results is non-empty if
\* and only if the web-search branch was selected, whatever the search
\* client did.
C3_Original ==
    pc = "done" => (Truthy(state.web_results) <=> state.quality # "correct")

JoinedContents(results) ==
    CASE Len(results) = 0 -> << >>
      [] Len(results) = 1 -> results[1]
      [] Len(results) = 2 -> results[1] \o BlankLine \o results[2]
      [] Len(results) = 3 ->
             results[1] \o BlankLine \o results[2] \o BlankLine \o results[3]

\* C5: the web_search node never fails the run: once it has run,
\* web_results is the disabled placeholder (no client), the placeholder
\* embedding the error (client raised) or the joined result contents
\* (client returned), and the run is at Generate or beyond.
C5_WebSearchNeverFails ==
    /\ calls.raised # "web_search"
    /\ calls.web_node = 1 =>
           /\ pc \in {"generate", "done", "failed"}
           /\ (pc = "failed" => calls.raised = "generate" /\ Generated)
           /\ (pc = "generate" => calls.raised = "")
           /\ state.web_results =
                  CASE webReply.kind = "none" -> WebDisabledText
                    [] webReply.kind = "raise" ->
                           ErrorPrefix \o webReply.text \o ErrorSuffix
                    [] webReply.kind = "ok" -> JoinedContents(webReply.results)

C5_Witness ==
    /\ pc = "done"
    /\ calls.web_node = 1
    /\ webReply.kind = "raise"
    /\ state.web_results = ErrorPrefix \o webReply.text \o ErrorSuffix

\* C6: when the store search, the assessor or the generator raises, the
\* query fails with that error: no later step is invoked, quality is not
\* given a default, no answer is returned, and the session (store,
\* compiled graph, ticker) is what it was, so the next query starts on it.
C6_FailureIsFatalAndLocal ==
    /\ [](calls.raised # "" =>
             /\ pc = "failed"
             /\ result.kind = "error"
             /\ result.error = calls.raised
             /\ result.answer = << >>
             /\ state.generation = << >>
             /\ app.compiled
             /\ (calls.raised = "retrieve" =>
                     /\ calls.search = 1
                     /\ calls.assessor = 0 /\ calls.route = 0
                     /\ calls.web_node = 0 /\ calls.generator = 0
                     /\ state.quality = "unknown")
             /\ (calls.raised = "assess" =>
                     /\ calls.assessor = 1
                     /\ calls.route = 0
                     /\ calls.web_node = 0 /\ calls.generator = 0
                     /\ state.quality = "unknown")
             /\ (calls.raised = "generate" => calls.generator = 1))
    /\ [][calls'.raised # "" => UNCHANGED sessionVars]_vars
    /\ [](prev = "raised" => app.compiled)
    /\ []((prev = "raised" /\ pc = "done") =>
              result.kind = "ok" /\ calls.raised = "")

C6_Witness ==
    /\ prev = "raised"
    /\ pc = "done"
    /\ result.kind = "ok"
    /\ result.answer # << >>

\* C7 as stated: a setup call that fails, at whichever step, leaves the
\* session (store, compiled graph, held ticker) exactly as it was.
C7_Original ==
    [][(nSetups' = nSetups + 1 /\ lastSetup' # "ok") =>
           /\ vectorstore' = vectorstore
           /\ app' = app
           /\ cliTicker' = cliTicker]_vars

\* C8: while no setup has succeeded (failed setups included) a query fails
\* and invokes none of the store search, assessor, web search, generator.
C8_NoQueryBeforeSetup ==
    okSetups = 0 =>
        /\ pc \in {"idle", "failed"}
        /\ calls = NoCalls
        /\ state = NoState
        /\ context = None
        /\ result.kind # "ok"
        /\ (pc = "failed" =>
                result.kind = "error" /\ result.error = "Call setup() first")
        /\ ((nQueries > 0 /\ lastSetup = "none") =>
                result.kind \in {"error", "refused"})

C8_Witness ==
    /\ okSetups = 0
    /\ nSetups > 0
    /\ pc = "failed"
    /\ result.error = "Call setup() first"

\* s[:n], position by position
Prefix(s, n) == [i \in 1..(IF Len(s) < n THEN Len(s) ELSE n) |-> s[i]]

\* the first 800 characters of each document
First800 == [d \in DocIds |-> Prefix(Contents[d], 800)]

\* the local segment the policy prescribes: the first two documents, 800
\* characters of each at most, a blank line between them
LocalSegment(docs) ==
    CASE Len(docs) = 0 -> << >>
      [] Len(docs) = 1 -> First800[docs[1]]
      [] Len(docs) >= 2 -> First800[docs[1]] \o BlankLine \o First800[docs[2]]

\* C9: outside the "correct" branch the context is "Local:" and the local
\* segment, then "Web:" and the whole of web_results; the local segment
\* takes the first 2 retrieved documents in order, at most 800 characters
\* of each, and nothing of later documents (empty with 0 documents).
C9_CombinedContext ==
    (context # None /\ state.quality # "correct") =>
        /\ context = LocalHeader \o LocalSegment(state.documents)
                         \o WebHeader \o state.web_results
        /\ Len(context) <= Len(LocalHeader) + 2 * 800 + Len(BlankLine)
                               + Len(WebHeader) + Len(state.web_results)

C9_Witness ==
    /\ context # None
    /\ state.quality = "ambiguous"
    /\ Len(state.documents) >= 3
    /\ Len(PageContent(state.documents[1])) > 800
    /\ Truthy(state.web_results)

C9_WitnessNoDocuments ==
    /\ context # None
    /\ state.quality = "ambiguous"
    /\ Len(state.documents) = 0
    /\ webReply.kind = "ok"
    /\ Len(webReply.results) = 3

\* where document i starts in the blank-line join of whole documents
RECURSIVE StartOf(_, _)
StartOf(docs, i) ==
    IF i = 1 THEN 0
    ELSE StartOf(docs, i - 1) + Len(PageContent(docs[i - 1])) + Len(BlankLine)

\* C10: in the "correct" branch the context is every retrieved document,
\* whole, in retrieval order, blank lines between them, and nothing else
\* (no web material).
C10_FullContext ==
    (context # None /\ state.quality = "correct") =>
        LET docs == state.documents
            n == Len(docs)
        IN /\ n <= 5
           /\ Len(context) =
                  IF n = 0 THEN 0
                  ELSE StartOf(docs, n) + Len(PageContent(docs[n]))
           /\ \A i \in 1..n :
                  SubSeq(context, StartOf(docs, i) + 1,
                         StartOf(docs, i) + Len(PageContent(docs[i])))
                      = PageContent(docs[i])
           /\ \A i \in 2..n :
                  SubSeq(context, StartOf(docs, i) - 1, StartOf(docs, i))
                      = BlankLine
           /\ state.web_results = << >>

C10_Witness ==
    /\ context # None
    /\ pc = "done"
    /\ state.quality = "correct"
    /\ Len(state.documents) = 5
    /\ \E i \in 1..5 : Len(PageContent(state.documents[i])) > 800
    /\ result.used_web = FALSE

(***************************************************************************)
(* The assessor on its own (SpecAssessor)                                  *)
(***************************************************************************)
\* the word occurs in the text at position i, whatever the case of the text
WordAt(text, word, i) ==
    /\ i + Len(word) - 1 <= Len(text)
    /\ \A j \in 1..Len(word) : LowerChar(text[i + j - 1]) = word[j]
HasWord(text, word) == \E i \in 1..Len(text) : WordAt(text, word, i)

\* the answers C11 and C19 name
TextCorrect == << "C", "o", "r", "r", "e", "c", "t" >>
TextThisIsIncorrect ==
    << "T", "h", "i", "s", " ", "i", "s", " ", "i", "n", "c", "o", "r", "r", "e", "c", "t" >>
TextNotSure == << "n", "o", "t", " ", "s", "u", "r", "e" >>
TextIncorrect == << "i", "n", "c", "o", "r", "r", "e", "c", "t" >>

\* C11: the answer is compared without regard to case; an answer that
\* contains "correct" is parsed as "correct" before "incorrect" is looked
\* for, and an answer with neither word is "ambiguous": "Correct" gives
\* "correct", "This is incorrect" gives "correct", "not sure" gives
\* "ambiguous".
C11_CorrectCheckedFirst ==
    assessor.pc = "returned" =>
        /\ HasWord(assessor.response, CorrectWord) => assessor.result = "correct"
        /\ (~HasWord(assessor.response, CorrectWord)
              /\ ~HasWord(assessor.response, IncorrectWord))
               => assessor.result = "ambiguous"
        /\ assessor.response = TextCorrect => assessor.result = "correct"
        /\ assessor.response = TextThisIsIncorrect => assessor.result = "correct"
        /\ assessor.response = TextNotSure => assessor.result = "ambiguous"

C11_Witness ==
    /\ assessor.pc = "returned"
    /\ assessor.response = TextThisIsIncorrect
    /\ assessor.result = "correct"

\* the first 500 characters of each document
First500 == [d \in DocIds |-> Prefix(Contents[d], 500)]

\* where piece i starts in the text sent to the chain
RECURSIVE PieceStart(_, _)
PieceStart(docs, i) ==
    IF i = 1 THEN 0
    ELSE PieceStart(docs, i - 1) + Len(First500[docs[i - 1]]) + Len(BlankLine)

\* C12: the text the assessor sends to the chain is made of the first 3
\* retrieved documents at most, the first 500 characters of each at most,
\* in retrieval order with a blank line between them; it is the same
\* whatever was retrieved after the third document.
C12_AssessorInput ==
    assessor.pc \in {"invoked", "returned", "raised"} =>
        LET docs == assessor.documents
            n == IF Len(docs) < 3 THEN Len(docs) ELSE 3
            text == assessor.docs_text
        IN /\ Len(text) = IF n = 0 THEN 0
                          ELSE PieceStart(docs, n) + Len(First500[docs[n]])
           /\ Len(text) <= 3 * 500 + 2 * Len(BlankLine)
           /\ \A i \in 1..n :
                  SubSeq(text, PieceStart(docs, i) + 1,
                         PieceStart(docs, i) + Len(First500[docs[i]]))
                      = First500[docs[i]]
           /\ \A i \in 2..n :
                  SubSeq(text, PieceStart(docs, i) - 1, PieceStart(docs, i))
                      = BlankLine

C12_Witness ==
    /\ assessor.pc = "invoked"
    /\ Len(assessor.documents) = 5
    /\ Len(PageContent(assessor.documents[2])) > 500
    /\ Len(PageContent(assessor.documents[4])) > 0
    /\ Len(assessor.docs_text) < 3 * 500 + 2 * Len(BlankLine)

\* C19: whatever the chain answers, the assessor returns "correct" or
\* "ambiguous" and never "incorrect": an answer that contains "incorrect",
\* the single word "incorrect" included, contains "correct" and is parsed
\* as "correct".
C19_IncorrectUnreachable ==
    assessor.pc = "returned" =>
        /\ assessor.result \in {"correct", "ambiguous"}
        /\ HasWord(assessor.response, IncorrectWord) => assessor.result = "correct"

C19_Witness ==
    /\ assessor.pc = "returned"
    /\ assessor.response = TextIncorrect
    /\ assessor.result = "correct"

\* C14: the quality of a run is "unknown" exactly as long as the assess
\* step has not completed in it, and "correct", "ambiguous" or "incorrect"
\* from then on; the routing rule, the generate step and the returned
\* result never see "unknown".
C14_UnknownUntilAssessed ==
    /\ state.quality = "unknown" <=> (calls.assessor = 0 \/ calls.raised = "assess")
    /\ state.quality # "unknown" => state.quality \in Qualities
    /\ (pc \in {"route", "web_search", "generate", "done"} \/ calls.route > 0
          \/ calls.generator > 0)
           => state.quality \in Qualities
    /\ result.kind = "ok" => result.quality \in Qualities

C14_Witness ==
    /\ pc = "done"
    /\ calls.route = 1
    /\ calls.generator = 1
    /\ state.quality = "ambiguous"
    /\ result.quality = "ambiguous"

\* the edges a run may take from one position to the next; a finished or
\* refused run gives way to the next call
RunEdges ==
    { << "retrieve", "assess" >>, << "assess", "route" >>,
      << "route", "web_search" >>, << "route", "generate" >>,
      << "web_search", "generate" >>, << "generate", "done" >> }
        \cup ({"retrieve", "assess", "web_search", "generate"} \X {"failed"})
        \cup ({"idle", "done", "failed"} \X {"idle", "retrieve", "failed"})

\* C15: a run goes through retrieve, assess, web_search (if routed there)
\* and generate in that order; each node runs at most once and only after
\* the node before it has written its part of the state; there is no way
\* back. Whenever every capability it calls returns, a run that has
\* started ends with a generated answer.
C15_FixedOrderAndTermination ==
    /\ [](/\ calls.search <= 1 /\ calls.assessor <= 1 /\ calls.route <= 1
          /\ calls.web_node <= 1 /\ calls.generator <= 1
          /\ calls.assessor > 0 => calls.search = 1
          /\ calls.route > 0 => (calls.assessor = 1 /\ state.quality # "unknown")
          /\ calls.web_node > 0 => calls.route = 1
          /\ calls.generator > 0 => calls.route = 1
          /\ (calls.generator > 0 /\ state.quality # "correct") => calls.web_node = 1)
    /\ [][pc' # pc => << pc, pc' >> \in RunEdges]_vars
    /\ (pc = "retrieve") ~>
           \/ pc = "done" /\ result.kind = "ok" /\ result.answer = state.generation
           \/ calls.raised # ""

C15_Witness ==
    /\ pc = "done"
    /\ calls.search = 1
    /\ calls.assessor = 1
    /\ calls.web_node = 1
    /\ calls.generator = 1
    /\ calls.raised = ""
    /\ result.answer = state.generation

\* C17: without the web-search credential the program is still usable:
\* it is not refused, a setup can succeed and queries run, with only the
\* web search disabled.
C17_Original ==
    ~tavilyKey =>
        /\ shell # "exited"
        /\ sysCreated => ~tavily
        /\ app.compiled => ~app.tavily_client

\* t is the text raw without the whitespace around it, in upper case
IsUpperTrimOf(t, raw) ==
    /\ t # << >>
    /\ t[1] \notin Whitespace
    /\ t[Len(t)] \notin Whitespace
    /\ \E k \in 0..(Len(raw) - Len(t)) :
          /\ \A i \in 1..k : raw[i] \in Whitespace
          /\ \A i \in (k + Len(t) + 1)..Len(raw) : raw[i] \in Whitespace
          /\ \A i \in 1..Len(t) :
                /\ t[i] = UpperChar(raw[k + i])
                /\ \A j \in 1..26 : t[i] # LowerLetters[j]

\* C20: the ticker the shell holds, and hands to FinancialCRAG.query, is
\* the upper-cased, trimmed ticker of the most recent successful setup; a
\* setup that failed or had no ticker leaves it as it was; no query
\* reaches the system before a setup has succeeded.
C20_ShellTicker ==
    /\ [](mode = "cli" =>
            /\ cliTicker = None <=> okSetups = 0
            /\ cliTicker # None =>
                  /\ IsUpperTrimOf(cliTicker, okRaw)
                  /\ app.compiled /\ app.vectorstore.ticker = cliTicker
            /\ pc # "idle" => (cliTicker # None /\ state.ticker = cliTicker)
            /\ okSetups = 0 => (pc = "idle" /\ calls = NoCalls /\ result.kind # "error"))
    /\ [][(mode = "cli" /\ cliTicker' # cliTicker) => lastSetup' = "ok"]_vars

C20_Witness ==
    /\ mode = "cli"
    /\ okSetups = 1
    /\ nSetups = 2
    /\ lastSetup = "none"
    /\ okRaw = << " ", "M", "s", " " >>
    /\ cliTicker = << "M", "S" >>
    /\ pc = "done"
    /\ state.ticker = << "M", "S" >>

\* the text starts with the command word, in any case, as a word of its own
StartsWithCommand(text, word) ==
    /\ WordAt(text, word, 1)
    /\ Len(text) > Len(word) => text[Len(word) + 1] \in Whitespace

\* a line that is not empty and whose first word is no command
IsFreeText(text) ==
    /\ text # None
    /\ text # << >>
    /\ \A word \in {ExitWord, QuitWord, HelpWord, SetupWord, QueryWord} :
           ~StartsWithCommand(text, word)

\* C18: a line that is not empty and whose first word is none of setup,
\* query, help, exit, quit is run as a query, the whole line being the
\* question, if and only if a ticker is loaded; otherwise it is reported
\* as an unknown command and no query is issued.
C18_FreeTextLine ==
    /\ [](IsFreeText(loop.user_input) =>
            /\ cliTicker # None =>
                  /\ loop.output = "query"
                  /\ pc # "idle"
                  /\ state.question = loop.user_input
                  /\ state.ticker = cliTicker
            /\ cliTicker = None =>
                  /\ loop.output = "unknown"
                  /\ pc = "idle"
                  /\ calls = NoCalls)
    /\ [](loop.output = "unknown" =>
            (IsFreeText(loop.user_input) /\ cliTicker = None))
    /\ [][loop'.output = "unknown" => UNCHANGED programVars]_vars

C18_Witness ==
    /\ loop.user_input = << "w", "h", "y", " ", "u", "p" >>
    /\ cliTicker # None
    /\ pc = "done"
    /\ result.question = << "w", "h", "y", " ", "u", "p" >>

C18_WitnessUnknown ==
    /\ loop.user_input = << "h", "e", "l", "p", "m", "e" >>
    /\ loop.output = "unknown"
    /\ cliTicker = None
    /\ nSetups > 0

(***************************************************************************)
(* Concurrent queries (SpecThreads)                                        *)
(***************************************************************************)
\* the state a call ends with when it runs alone and the capabilities hand
\* it what g records
SoloState(g) ==
    LET s0 == InitialState(g.question, g.ticker)
        s1 == retrieve(s0, g.documents)
        s2 == assess(s1, g.response)
        s3 == IF route(s2) = "web_search"
              THEN web_search(s2, app.tavily_client, g.web)
              ELSE s2
    IN generate(s3, g.answer)

\* C13: two runs that reach generate with the same retrieved documents and
\* the same quality hand the generator the same context, byte for byte.
C13_Original ==
    \A r1, r2 \in RunIds :
        (/\ runs[r1].context # None
         /\ runs[r2].context # None
         /\ runs[r1].state.documents = runs[r2].state.documents
         /\ runs[r1].state.quality = runs[r2].state.quality)
            => runs[r1].context = runs[r2].context

\* C13 (amended): two runs that reach generate with the same retrieved
\* documents, the same quality and the same web_results hand the generator
\* the same context, byte for byte, whatever their questions are; with
\* quality "correct" the documents alone decide.
C13_ContextFromDocsQualityWeb ==
    \A r1, r2 \in RunIds :
        (/\ runs[r1].context # None
         /\ runs[r2].context # None
         /\ runs[r1].state.documents = runs[r2].state.documents
         /\ runs[r1].state.quality = runs[r2].state.quality
         /\ (runs[r1].state.web_results = runs[r2].state.web_results
               \/ runs[r1].state.quality = "correct"))
            => runs[r1].context = runs[r2].context

C13_Witness ==
    /\ runs["t1"].context # None
    /\ runs["t2"].context # None
    /\ runs["t1"].state.question # runs["t2"].state.question
    /\ runs["t1"].state.quality = "ambiguous"
    /\ runs["t2"].state.quality = "ambiguous"
    /\ Len(runs["t1"].state.documents) = 2
    /\ runs["t1"].state.documents = runs["t2"].state.documents
    /\ Truthy(runs["t1"].state.web_results)
    /\ runs["t1"].state.web_results = runs["t2"].state.web_results
    /\ runs["t1"].context = runs["t2"].context

\* C16: however the steps of concurrent queries on one loaded system
\* interleave, a step of one query changes that query's record only, every
\* query works on the question, documents, quality, web_results and
\* generation it was itself given, and the result it returns is the result
\* of the same query run alone with the same capability responses.
C16_PrivateRunState ==
    /\ [](\A r \in RunIds :
            LET run == runs[r]
            IN /\ run.state.question = run.got.question
               /\ run.state.ticker = run.got.ticker
               /\ run.state.documents = run.got.documents
               /\ run.pc \in {"route", "web_search", "generate", "done"} =>
                     run.state.quality = AssessorParse(run.got.response)
               /\ run.pc = "done" =>
                     /\ run.state = SoloState(run.got)
                     /\ run.result = QueryResult(run.got.question, SoloState(run.got))
                     /\ run.context = GenerateContext(SoloState(run.got)))
    /\ [][\A r \in RunIds :
            runs'[r] # runs[r] => \A x \in RunIds \ {r} : runs'[x] = runs[x]]_vars

C16_Witness ==
    /\ runs["t1"].pc = "done"
    /\ runs["t2"].pc = "done"
    /\ runs["t1"].state.quality = "correct"
    /\ runs["t2"].state.quality = "ambiguous"
    /\ runs["t1"].state.documents # runs["t2"].state.documents
    /\ runs["t1"].result.answer # runs["t2"].result.answer
    /\ runs["t2"].result.used_web

====
